---------------------------- MODULE Spec2Model ----------------------------
(***************************************************************************)
(* Model of src/lambda_function.py: the translation request handler.       *)
(*                                                                         *)
(* Python values are tagged records [t |-> <type name>, v |-> <payload>].  *)
(* A str is a sequence of one-character strings, a list is a sequence of   *)
(* values and a dict is an insertion-ordered sequence of <<key, value>>    *)
(* pairs with distinct keys, as in CPython.  JSON text is a str: it is     *)
(* produced by dumps and read back by loads, character by character.       *)
(***************************************************************************)
EXTENDS Integers, Sequences, FiniteSets, TLC

(***************************************************************************)
(* Python values                                                           *)
(***************************************************************************)
Chars(s) == [i \in 1..Len(s) |-> SubSeq(s, i, i)]

PNone == [t |-> "NoneType"]
PInt(n) == [t |-> "int", v |-> n]
PBool(b) == [t |-> "bool", v |-> b]
PFloat(name) == [t |-> "float", v |-> name]
PStr(s) == [t |-> "str", v |-> Chars(s)]
PStrOf(cs) == [t |-> "str", v |-> cs]
PList(xs) == [t |-> "list", v |-> xs]
PDict(pairs) == [t |-> "dict", v |-> pairs]
PObject(attrs) == [t |-> "object", v |-> attrs]

\* bool(x): the truth value Python gives x
Truthy(x) ==
    CASE x.t = "NoneType" -> FALSE
      [] x.t = "int" -> x.v # 0
      [] x.t = "bool" -> x.v
      [] x.t = "float" -> TRUE
      [] x.t \in {"str", "list", "dict"} -> Len(x.v) # 0
      [] OTHER -> TRUE

HasKey(pairs, k) == \E n \in 1..Len(pairs) : pairs[n][1] = k
Lookup(pairs, k) == pairs[CHOOSE n \in 1..Len(pairs) : pairs[n][1] = k][2]
\* d[k] = v on an insertion-ordered dict
DictSet(pairs, k, val) ==
    IF HasKey(pairs, k)
    THEN [n \in 1..Len(pairs) |-> IF pairs[n][1] = k THEN <<k, val>> ELSE pairs[n]]
    ELSE Append(pairs, <<k, val>>)

IsSubstring(a, b) ==
    \E n \in 0..(Len(b) - Len(a)) : SubSeq(b, n + 1, n + Len(a)) = a

\* `item in x` is defined for containers only; on anything else it raises TypeError
SupportsIn(item, x) ==
    \/ x.t \in {"dict", "list"}
    \/ x.t = "str" /\ item.t = "str"
Contains(item, x) ==
    CASE x.t = "dict" -> HasKey(x.v, item)
      [] x.t = "list" -> \E n \in 1..Len(x.v) : x.v[n] = item
      [] x.t = "str" -> IsSubstring(item.v, x.v)

\* x[key] with a str key: only a dict supports it (KeyError when the key is missing)
GetItemError(x, key) ==
    IF x.t = "dict" THEN (IF HasKey(x.v, key) THEN "none" ELSE "KeyError")
    ELSE "TypeError"
GetItem(x, key) == Lookup(x.v, key)
\* DictGet with a fault: x.get(key), the default forgotten
DictGetNoDefault(x, key, default) == IF HasKey(x.v, key) THEN Lookup(x.v, key) ELSE PNone
\* x.get(key, default)
DictGet(x, key, default) == IF HasKey(x.v, key) THEN Lookup(x.v, key) ELSE default

IsWhitespace(c) == c \in {" ", "\t", "\n", "\r"}
RECURSIVE LStrip(_)
LStrip(cs) == IF cs # <<>> /\ IsWhitespace(Head(cs)) THEN LStrip(Tail(cs)) ELSE cs
RECURSIVE RStrip(_)
RStrip(cs) ==
    IF cs # <<>> /\ IsWhitespace(cs[Len(cs)]) THEN RStrip(SubSeq(cs, 1, Len(cs) - 1)) ELSE cs
\* Strip with a fault: the text is tested as it came
StripNothing(cs) == cs
Strip(cs) == RStrip(LStrip(cs))

(***************************************************************************)
(* json.dumps                                                              *)
(***************************************************************************)
Digits == <<"0", "1", "2", "3", "4", "5", "6", "7", "8", "9">>
RECURSIVE NatRepr(_)
NatRepr(n) == IF n < 10 THEN <<Digits[n + 1]>> ELSE NatRepr(n \div 10) \o <<Digits[(n % 10) + 1]>>
IntRepr(n) == IF n < 0 THEN <<"-">> \o NatRepr(0 - n) ELSE NatRepr(n)
FloatRepr(name) ==
    CASE name = "nan" -> Chars("NaN")
      [] name = "inf" -> Chars("Infinity")
      [] name = "-inf" -> Chars("-Infinity")

RECURSIVE dumps(_)
RECURSIVE DumpItems(_, _)
RECURSIVE DumpPairs(_, _)
DumpItems(xs, n) ==
    IF n > Len(xs) THEN <<>>
    ELSE (IF n > 1 THEN Chars(", ") ELSE <<>>) \o dumps(xs[n]) \o DumpItems(xs, n + 1)
DumpPairs(pairs, n) ==
    IF n > Len(pairs) THEN <<>>
    ELSE (IF n > 1 THEN Chars(", ") ELSE <<>>)
         \o <<"\"">> \o pairs[n][1].v \o <<"\"">> \o Chars(": ") \o dumps(pairs[n][2])
         \o DumpPairs(pairs, n + 1)
dumps(x) ==
    CASE x.t = "NoneType" -> Chars("null")
      [] x.t = "bool" -> IF x.v THEN Chars("true") ELSE Chars("false")
      [] x.t = "int" -> IntRepr(x.v)
      [] x.t = "float" -> FloatRepr(x.v)
      [] x.t = "str" -> <<"\"">> \o x.v \o <<"\"">>
      [] x.t = "list" -> <<"[">> \o DumpItems(x.v, 1) \o <<"]">>
      [] x.t = "dict" -> <<"{">> \o DumpPairs(x.v, 1) \o <<"}">>

(***************************************************************************)
(* json.loads: the scanner and the object, array, string and number        *)
(* readers of the standard decoder.  A reader returns [ok, val, end] with  *)
(* end the index after the value; ok = FALSE is JSONDecodeError.  String   *)
(* content is read up to the closing quote (the inputs carry no escapes)   *)
(* and numbers are integers.                                               *)
(***************************************************************************)
Fail == [ok |-> FALSE]
Ok(val, end) == [ok |-> TRUE, val |-> val, end |-> end]

RECURSIVE SkipWS(_, _)
SkipWS(s, i) == IF i <= Len(s) /\ IsWhitespace(s[i]) THEN SkipWS(s, i + 1) ELSE i

MatchAt(s, i, lit) == i + Len(lit) - 1 <= Len(s) /\ SubSeq(s, i, i + Len(lit) - 1) = Chars(lit)

IsDigit(c) == \E n \in 1..10 : Digits[n] = c
DigitVal(c) == (CHOOSE n \in 1..10 : Digits[n] = c) - 1
RECURSIVE DigitsEnd(_, _)
DigitsEnd(s, i) == IF i <= Len(s) /\ IsDigit(s[i]) THEN DigitsEnd(s, i + 1) ELSE i
RECURSIVE NatVal(_)
NatVal(cs) == IF cs = <<>> THEN 0 ELSE 10 * NatVal(SubSeq(cs, 1, Len(cs) - 1)) + DigitVal(cs[Len(cs)])

\* NUMBER_RE, integer part: -?(0|[1-9][0-9]*)
scannumber(s, i) ==
    LET neg == s[i] = "-"
        d == IF neg THEN i + 1 ELSE i
    IN  IF d > Len(s) \/ ~IsDigit(s[d]) THEN Fail
        ELSE LET e == IF s[d] = "0" THEN d + 1 ELSE DigitsEnd(s, d)
                 n == NatVal(SubSeq(s, d, e - 1))
             IN  Ok(PInt(IF neg THEN 0 - n ELSE n), e)

RECURSIVE QuoteAt(_, _)
QuoteAt(s, i) == IF i > Len(s) \/ s[i] = "\"" THEN i ELSE QuoteAt(s, i + 1)
\* i is the index after the opening quote
scanstring(s, i) ==
    LET q == QuoteAt(s, i)
    IN  IF q > Len(s) THEN Fail ELSE Ok(PStrOf(SubSeq(s, i, q - 1)), q + 1)

RECURSIVE scan_once(_, _)
RECURSIVE JSONObjectLoop(_, _, _)
RECURSIVE JSONArrayLoop(_, _, _)

\* i is the index after the opening quote of a key
JSONObjectLoop(s, i, pairs) ==
    LET k == scanstring(s, i)
    IN  IF ~k.ok THEN Fail
        ELSE LET c == SkipWS(s, k.end)
             IN  IF c > Len(s) \/ s[c] # ":" THEN Fail
                 ELSE LET val == scan_once(s, SkipWS(s, c + 1))
                      IN  IF ~val.ok THEN Fail
                          ELSE LET e == SkipWS(s, val.end)
                                   newpairs == DictSet(pairs, k.val, val.val)
                               IN  IF e > Len(s) THEN Fail
                                   ELSE IF s[e] = "}" THEN Ok(PDict(newpairs), e + 1)
                                   ELSE IF s[e] # "," THEN Fail
                                   ELSE LET q == SkipWS(s, e + 1)
                                        IN  IF q > Len(s) \/ s[q] # "\"" THEN Fail
                                            ELSE JSONObjectLoop(s, q + 1, newpairs)

\* i is the index after the opening brace
JSONObject(s, i) ==
    LET j == SkipWS(s, i)
    IN  IF j > Len(s) THEN Fail
        ELSE IF s[j] = "}" THEN Ok(PDict(<<>>), j + 1)
        ELSE IF s[j] # "\"" THEN Fail
        ELSE JSONObjectLoop(s, j + 1, <<>>)

\* i is the index of the next item
JSONArrayLoop(s, i, items) ==
    LET val == scan_once(s, i)
    IN  IF ~val.ok THEN Fail
        ELSE LET e == SkipWS(s, val.end)
                 newitems == Append(items, val.val)
             IN  IF e > Len(s) THEN Fail
                 ELSE IF s[e] = "]" THEN Ok(PList(newitems), e + 1)
                 ELSE IF s[e] # "," THEN Fail
                 ELSE JSONArrayLoop(s, SkipWS(s, e + 1), newitems)

\* i is the index after the opening bracket
JSONArray(s, i) ==
    LET j == SkipWS(s, i)
    IN  IF j > Len(s) THEN Fail
        ELSE IF s[j] = "]" THEN Ok(PList(<<>>), j + 1)
        ELSE JSONArrayLoop(s, j, <<>>)

scan_once(s, i) ==
    IF i > Len(s) THEN Fail
    ELSE CASE s[i] = "\"" -> scanstring(s, i + 1)
           [] s[i] = "{" -> JSONObject(s, i + 1)
           [] s[i] = "[" -> JSONArray(s, i + 1)
           [] MatchAt(s, i, "null") -> Ok(PNone, i + 4)
           [] MatchAt(s, i, "true") -> Ok(PBool(TRUE), i + 4)
           [] MatchAt(s, i, "false") -> Ok(PBool(FALSE), i + 5)
           [] IsDigit(s[i]) \/ (s[i] = "-" /\ i < Len(s) /\ IsDigit(s[i + 1])) -> scannumber(s, i)
           [] MatchAt(s, i, "NaN") -> Ok(PFloat("nan"), i + 3)
           [] MatchAt(s, i, "Infinity") -> Ok(PFloat("inf"), i + 8)
           [] MatchAt(s, i, "-Infinity") -> Ok(PFloat("-inf"), i + 9)
           [] OTHER -> Fail

\* JSONDecoder.decode: one value, surrounded by optional whitespace, then the end
loads(s) ==
    LET r == scan_once(s, SkipWS(s, 1))
    IN  IF ~r.ok THEN Fail
        ELSE IF SkipWS(s, r.end) # Len(s) + 1 THEN Fail
        ELSE r

(***************************************************************************)
(* Exceptions and the environment of the handler                           *)
(***************************************************************************)
PExc(type, msg) == [t |-> type, v |-> Chars(msg)]

\* isinstance(e, cls) for the exception classes the handler names
ExceptionBases(type) ==
    CASE type = "JSONDecodeError" -> {"JSONDecodeError", "ValueError", "Exception"}
      [] OTHER -> {type, "Exception"}
IsInstance(e, cls) == cls \in ExceptionBases(e.t)

HasAttr(obj, name) == obj.t = "object" /\ HasKey(obj.v, PStr(name))
GetAttr(obj, name) == Lookup(obj.v, PStr(name))

\* datetime.isoformat() of an instant n seconds into the first minute of the epoch
isoformat(n) == Chars("1970-01-01T00:00:") \o (IF n < 10 THEN <<"0">> ELSE <<>>) \o NatRepr(n)

Returned(value) == [kind |-> "return", value |-> value]
Raised(exc) == [kind |-> "raise", value |-> exc]
Running == [kind |-> "none", value |-> PNone]

(***************************************************************************)
(* validate_input                                                          *)
(***************************************************************************)
\* required_fields with a fault: the second name misspelt
required_fields_misspelt == <<"text", "target_lang">>
required_fields == <<"text", "target_language">>

ErrorResponse(status, payload) ==
    PDict(<< <<PStr("statusCode"), PInt(status)>>,
             <<PStr("body"), PStrOf(dumps(PDict(payload)))>> >>)

\* the loop over required_fields from the n-th field on
RECURSIVE RequiredLoop(_, _)
RequiredLoop(body, n) ==
    IF n > Len(required_fields) THEN Returned(PNone)
    ELSE LET field == PStr(required_fields[n])
         IN  IF ~SupportsIn(field, body) THEN Raised(PExc("TypeError", "not iterable"))
             ELSE IF ~Contains(field, body)
             THEN Returned(ErrorResponse(400,
                      << <<PStr("error"),
                           PStrOf(Chars("Missing required field: ") \o field.v)>> >>))
             ELSE RequiredLoop(body, n + 1)

\* Returned(None) is (True, None); Returned(r) is (False, r)
validate_input(body) ==
    IF ~Truthy(body)
    THEN Returned(ErrorResponse(400, << <<PStr("error"), PStr("Request body is empty")>> >>))
    ELSE LET r == RequiredLoop(body, 1)
         IN  IF r.kind = "raise" \/ r.value # PNone THEN r
             ELSE IF GetItemError(body, PStr("text")) # "none"
             THEN Raised(PExc(GetItemError(body, PStr("text")), "text"))
             ELSE LET text == GetItem(body, PStr("text"))
                  IN  IF text.t # "str" \/ Strip(text.v) = <<>>
                      THEN Returned(ErrorResponse(400,
                               << <<PStr("error"),
                                    PStr("Text field must be a non-empty string")>> >>))
                      ELSE Returned(PNone)

(***************************************************************************)
(* lambda_handler                                                          *)
(***************************************************************************)
\* the 500 branch: context.aws_request_id if context else None
RequestIdOf(ctx) ==
    IF ~Truthy(ctx) THEN Returned(PNone)
    ELSE IF HasAttr(ctx, "aws_request_id") THEN Returned(GetAttr(ctx, "aws_request_id"))
    ELSE Raised(PExc("AttributeError", "aws_request_id"))

\* HandleException with a fault: the catch-all clause written first
HandleExceptionCatchAllFirst(e, ctx) ==
    LET rid == RequestIdOf(ctx)
    IN  IF rid.kind = "raise" THEN rid
        ELSE Returned(ErrorResponse(500,
                 << <<PStr("error"), PStr("Internal server error")>>,
                    <<PStr("request_id"), rid.value>> >>))
\* the except clauses, in the order they are written
HandleException(e, ctx) ==
    IF IsInstance(e, "UnsupportedLanguagePairException")
    THEN Returned(ErrorResponse(400, << <<PStr("error"), PStr("Unsupported language pair")>>,
                                        <<PStr("detail"), PStrOf(e.v)>> >>))
    ELSE IF IsInstance(e, "InvalidRequestException")
    THEN Returned(ErrorResponse(400, << <<PStr("error"), PStrOf(e.v)>> >>))
    ELSE IF IsInstance(e, "JSONDecodeError")
    THEN Returned(ErrorResponse(400, << <<PStr("error"), PStr("Invalid JSON in request body")>> >>))
    ELSE IF IsInstance(e, "Exception")
    THEN LET rid == RequestIdOf(ctx)
         IN  IF rid.kind = "raise" THEN rid
             ELSE Returned(ErrorResponse(500,
                      << <<PStr("error"), PStr("Internal server error")>>,
                         <<PStr("request_id"), rid.value>> >>))
    ELSE Raised(e)

\* SuccessResponse with a fault: the two language codes of the reply exchanged
SuccessResponseSwapped(response, now) ==
    PDict(<< <<PStr("statusCode"), PInt(200)>>,
             <<PStr("headers"),
               PDict(<< <<PStr("Content-Type"), PStr("application/json")>>,
                        <<PStr("Access-Control-Allow-Origin"), PStr("*")>> >>)>>,
             <<PStr("body"),
               PStrOf(dumps(PDict(
                   << <<PStr("translated_text"), GetItem(response, PStr("TranslatedText"))>>,
                      <<PStr("detected_source_language"),
                        GetItem(response, PStr("TargetLanguageCode"))>>,
                      <<PStr("target_language"), GetItem(response, PStr("SourceLanguageCode"))>>,
                      <<PStr("timestamp"), PStrOf(isoformat(now))>> >>)))>> >>)
\* the 200 envelope built from the provider's reply at instant now
SuccessResponse(response, now) ==
    PDict(<< <<PStr("statusCode"), PInt(200)>>,
             <<PStr("headers"),
               PDict(<< <<PStr("Content-Type"), PStr("application/json")>>,
                        <<PStr("Access-Control-Allow-Origin"), PStr("*")>> >>)>>,
             <<PStr("body"),
               PStrOf(dumps(PDict(
                   << <<PStr("translated_text"), GetItem(response, PStr("TranslatedText"))>>,
                      <<PStr("detected_source_language"),
                        GetItem(response, PStr("SourceLanguageCode"))>>,
                      <<PStr("target_language"), GetItem(response, PStr("TargetLanguageCode"))>>,
                      <<PStr("timestamp"), PStrOf(isoformat(now))>> >>)))>> >>)

\* the exception the three extractions raise, if any: body['text'],
\* body['target_language'], body.get('source_language', 'auto')
ExtractError(body) ==
    IF GetItemError(body, PStr("text")) # "none" THEN GetItemError(body, PStr("text"))
    ELSE IF GetItemError(body, PStr("target_language")) # "none"
    THEN GetItemError(body, PStr("target_language"))
    ELSE "none"

\* the keyword arguments of translate.translate_text
TranslateCall(body) ==
    [Text |-> GetItem(body, PStr("text")),
     SourceLanguageCode |-> DictGet(body, PStr("source_language"), PStr("auto")),
     TargetLanguageCode |-> GetItem(body, PStr("target_language"))]

(***************************************************************************)
(* Inputs                                                                  *)
(***************************************************************************)
MaxTime == 1

\* the frames of the hosting environment: each runs one invocation at a time and
\* is reused by later invocations
Invocations == {1, 2}
Times == 0..MaxTime

Field(name, values) == {<<>>} \cup { << <<PStr(name), val>> >> : val \in values }
MappingBodies ==
    { PDict(t \o g \o s) :
        t \in Field("text", {PStr(""), PStr(" "), PStr("hi"), PStr(" hi "), PInt(5), PNone}),
        g \in Field("target_language", {PStr("es"), PNone}),
        s \in Field("source_language", {PStr("en")}) }
OtherBodies ==
    { PNone, PInt(5), PInt(0), PBool(TRUE), PBool(FALSE), PList(<<>>), PList(<<PStr("text")>>),
      PList(<<PStr("text"), PStr("target_language")>>),
      PStr(""), PStr("abc"), PStr("text target_language") }
ValidBody == PDict(<< <<PStr("text"), PStr("hi")>>, <<PStr("target_language"), PStr("es")>> >>)
\* strings that the decoder is given as they are: empty, blank, truncated, with
\* text after the value, with a dangling comma, a bare NaN
RawBodies ==
    { PStr(""), PStr(" "), PStr("NaN"), PStr("{} x"), PStr("[1,]"), PStr(" {} "),
      PStrOf(SubSeq(dumps(ValidBody), 1, Len(dumps(ValidBody)) - 1)) }
\* values of event['body']: JSON text, or an already decoded value
EventBodies ==
    { PStrOf(dumps(b)) : b \in MappingBodies \cup OtherBodies }
    \cup RawBodies
    \cup { b \in MappingBodies \cup OtherBodies : b.t # "str" }
Events ==
    { PDict(<<>>) } \cup { PDict(<< <<PStr("body"), b>> >>) : b \in EventBodies }
Contexts ==
    { PNone, PObject(<< <<PStr("aws_request_id"), PStr("rid")>> >>), PObject(<<>>) }

Reply(text, source, target) ==
    PDict(<< <<PStr("TranslatedText"), PStr(text)>>,
             <<PStr("SourceLanguageCode"), PStr(source)>>,
             <<PStr("TargetLanguageCode"), PStr(target)>> >>)
\* what translate_text does: it returns a reply or raises
\* the inputs of the invocations that run side by side
ConcurrentEvents ==
    { PDict(<<>>) }
    \cup { PDict(<< <<PStr("body"), b>> >>) :
             b \in { PStr(""), PStrOf(dumps(PDict(<<>>))), PStrOf(dumps(ValidBody)), ValidBody,
                     PInt(5) } }

ProviderOutcomes ==
    { Returned(Reply("hola", "en", "es")), Returned(Reply("allo", "de", "fr")),
      Raised(PExc("UnsupportedLanguagePairException", "no such pair")),
      Raised(PExc("InvalidRequestException", "bad code")),
      Raised(PExc("Exception", "boom")) }

(***************************************************************************)
(* State: the frames of the invocations in flight                          *)
(***************************************************************************)
VARIABLES pc, event, context, body, calls, outcome, result
vars == <<pc, event, context, body, calls, outcome, result>>

\* BodyOf with a fault: body kept in a module-level variable, which an invocation
\* that parsed in between has overwritten
BodyOfGlobal(i) ==
    LET others == { j \in Invocations \ {i} : pc[j] \in {"validate", "invoke", "await"} }
    IN  IF others # {} THEN body[CHOOSE j \in others : TRUE] ELSE body[i]
\* the local variable body of invocation i
BodyOf(i) == body[i]

Init ==
    /\ pc = [i \in Invocations |-> "idle"]
    /\ event = [i \in Invocations |-> PNone]
    /\ context = [i \in Invocations |-> PNone]
    /\ body = [i \in Invocations |-> PNone]
    /\ calls = [i \in Invocations |-> <<>>]
    /\ outcome = [i \in Invocations |-> Running]
    /\ result = [i \in Invocations |-> Running]

\* the hosting environment invokes lambda_handler(ev, ctx)
Start(i, evs) ==
    /\ pc[i] = "idle"
    /\ \E ev \in evs, ctx \in Contexts :
        /\ event' = [event EXCEPT ![i] = ev]
        /\ context' = [context EXCEPT ![i] = ctx]
    /\ pc' = [pc EXCEPT ![i] = "parse"]
    /\ UNCHANGED <<body, calls, outcome, result>>

Finish(i, res) ==
    /\ result' = [result EXCEPT ![i] = res]
    /\ pc' = [pc EXCEPT ![i] = "done"]

\* body = json.loads(event['body']) if isinstance(event['body'], str) else event['body']
Parse(i) ==
    /\ pc[i] = "parse"
    /\ IF GetItemError(event[i], PStr("body")) # "none"
       THEN /\ Finish(i, HandleException(PExc("KeyError", "body"), context[i]))
            /\ UNCHANGED body
       ELSE LET raw == GetItem(event[i], PStr("body"))
            IN  IF raw.t = "str"
                THEN IF loads(raw.v).ok
                     THEN /\ body' = [body EXCEPT ![i] = loads(raw.v).val]
                          /\ pc' = [pc EXCEPT ![i] = "validate"]
                          /\ UNCHANGED result
                     ELSE /\ Finish(i, HandleException(PExc("JSONDecodeError", "Expecting value"),
                                                       context[i]))
                          /\ UNCHANGED body
                ELSE /\ body' = [body EXCEPT ![i] = raw]
                     /\ pc' = [pc EXCEPT ![i] = "validate"]
                     /\ UNCHANGED result
    /\ UNCHANGED <<event, context, calls, outcome>>

\* is_valid, error_response = validate_input(body); return error_response if not is_valid
Validate(i) ==
    /\ pc[i] = "validate"
    /\ LET r == validate_input(BodyOf(i))
       IN  IF r.kind = "raise" THEN Finish(i, HandleException(r.value, context[i]))
           ELSE IF r.value # PNone THEN Finish(i, r)
           ELSE /\ pc' = [pc EXCEPT ![i] = "invoke"]
                /\ UNCHANGED result
    /\ UNCHANGED <<event, context, body, calls, outcome>>

\* translate.translate_text(Text=..., SourceLanguageCode=..., TargetLanguageCode=...):
\* the call is issued and the invocation blocks on it
Invoke(i) ==
    /\ pc[i] = "invoke"
    /\ IF ExtractError(BodyOf(i)) # "none"
       THEN /\ Finish(i, HandleException(PExc(ExtractError(BodyOf(i)), "body"), context[i]))
            /\ UNCHANGED calls
       ELSE /\ calls' = [calls EXCEPT ![i] = Append(@, TranslateCall(BodyOf(i)))]
            /\ pc' = [pc EXCEPT ![i] = "await"]
            /\ UNCHANGED result
    /\ UNCHANGED <<event, context, body, outcome>>

\* the call returns or raises, and the handler maps it to the envelope
ProviderReturns(i) ==
    /\ pc[i] = "await"
    /\ \E o \in ProviderOutcomes, now \in Times :
        /\ outcome' = [outcome EXCEPT ![i] = o]
        /\ IF o.kind = "return"
           THEN Finish(i, Returned(SuccessResponse(o.value, now)))
           ELSE Finish(i, HandleException(o.value, context[i]))
    /\ UNCHANGED <<event, context, body, calls>>

\* the invocation is over and its frame is discarded
Exit(i) ==
    /\ pc[i] = "done"
    /\ pc' = [pc EXCEPT ![i] = "idle"]
    /\ event' = [event EXCEPT ![i] = PNone]
    /\ context' = [context EXCEPT ![i] = PNone]
    /\ body' = [body EXCEPT ![i] = PNone]
    /\ calls' = [calls EXCEPT ![i] = <<>>]
    /\ outcome' = [outcome EXCEPT ![i] = Running]
    /\ result' = [result EXCEPT ![i] = Running]

\* invocations one after the other, over all the events
Next ==
    \/ Start(1, Events)
    \/ Parse(1)
    \/ Validate(1)
    \/ Invoke(1)
    \/ ProviderReturns(1)
    \/ Exit(1)

Spec == Init /\ [][Next]_vars

\* invocations side by side, their steps interleaved
NextConcurrent ==
    \E i \in Invocations :
        \/ Start(i, ConcurrentEvents)
        \/ Parse(i)
        \/ Validate(i)
        \/ Invoke(i)
        \/ ProviderReturns(i)
        \/ Exit(i)

SpecConcurrent == Init /\ [][NextConcurrent]_vars

(***************************************************************************)
(* Reading an invocation's inputs and its outcome                          *)
(***************************************************************************)
Done(i) == pc[i] = "done"
HasBody(i) == GetItemError(event[i], PStr("body")) = "none"
RawBody(i) == GetItem(event[i], PStr("body"))
\* the body reached the validation step: it needed no decoding, or it decoded
Decoded(i) ==
    /\ pc[i] \notin {"idle", "parse"}
    /\ HasBody(i)
    /\ RawBody(i).t = "str" => loads(RawBody(i).v).ok

\* RFC 8259 has no NaN or Infinity: a value is JSON if it holds no such constant
RECURSIVE IsJsonValue(_)
IsJsonValue(x) ==
    CASE x.t = "float" -> FALSE
      [] x.t = "list" -> \A n \in 1..Len(x.v) : IsJsonValue(x.v[n])
      [] x.t = "dict" -> \A n \in 1..Len(x.v) : IsJsonValue(x.v[n][2])
      [] OTHER -> TRUE
IsValidJson(cs) == loads(cs).ok /\ IsJsonValue(loads(cs).val)

IsMapping(x) == x.t = "dict"
HasField(x, name) == IsMapping(x) /\ HasKey(x.v, PStr(name))
FieldOf(x, name) == GetItem(x, PStr(name))
IsBlank(x) == x.t = "str" /\ \A n \in 1..Len(x.v) : IsWhitespace(x.v[n])
\* text is a string with a non-whitespace character and target_language is present
ValidRequest(b) ==
    /\ HasField(b, "text") /\ HasField(b, "target_language")
    /\ FieldOf(b, "text").t = "str" /\ ~IsBlank(FieldOf(b, "text"))

\* the handler returned a dict with a status code and a body that is JSON text
IsEnvelope(r) ==
    /\ r.kind = "return"
    /\ HasField(r.value, "statusCode") /\ HasField(r.value, "body")
    /\ FieldOf(r.value, "body").t = "str"
    /\ loads(FieldOf(r.value, "body").v).ok
Status(i) == FieldOf(result[i].value, "statusCode").v
Payload(i) == loads(FieldOf(result[i].value, "body").v).val
Keys(d) == { d.v[n][1].v : n \in 1..Len(d.v) }
\* the envelope has this status and its body an error field with this message
ErrorIs(i, status, msg) ==
    /\ IsEnvelope(result[i]) /\ Status(i) = status
    /\ HasField(Payload(i), "error") /\ FieldOf(Payload(i), "error") = PStr(msg)
ErrorContains(i, status, msg) ==
    /\ IsEnvelope(result[i]) /\ Status(i) = status
    /\ HasField(Payload(i), "error") /\ FieldOf(Payload(i), "error").t = "str"
    /\ IsSubstring(Chars(msg), FieldOf(Payload(i), "error").v)
IsOtherFault(o) ==
    /\ o.kind = "raise"
    /\ o.value.t \notin {"UnsupportedLanguagePairException", "InvalidRequestException"}

(***************************************************************************)
(* Claims                                                                  *)
(***************************************************************************)

\* C1: every invocation ends by returning an envelope with a status code and a
\* JSON body, whatever the event, the context and the provider's outcome; no
\* fault leaves the handler.
C1_AlwaysAnEnvelope == \A i \in Invocations : Done(i) => IsEnvelope(result[i])

\* C2: a valid request whose provider call returns a reply gets status 200, the two
\* headers, and a body whose translated_text, detected_source_language and
\* target_language are the reply's TranslatedText, SourceLanguageCode and
\* TargetLanguageCode, plus a timestamp.
C2_SuccessEnvelope ==
    \A i \in Invocations :
        (Done(i) /\ Decoded(i) /\ ValidRequest(body[i]) /\ outcome[i].kind = "return") =>
            /\ IsEnvelope(result[i]) /\ Status(i) = 200
            /\ HasField(result[i].value, "headers")
            /\ LET headers == FieldOf(result[i].value, "headers")
               IN  /\ HasField(headers, "Content-Type")
                   /\ FieldOf(headers, "Content-Type") = PStr("application/json")
                   /\ HasField(headers, "Access-Control-Allow-Origin")
                   /\ FieldOf(headers, "Access-Control-Allow-Origin") = PStr("*")
            /\ Keys(Payload(i)) = { Chars("translated_text"), Chars("detected_source_language"),
                                    Chars("target_language"), Chars("timestamp") }
            /\ FieldOf(Payload(i), "translated_text") = FieldOf(outcome[i].value, "TranslatedText")
            /\ FieldOf(Payload(i), "detected_source_language")
                   = FieldOf(outcome[i].value, "SourceLanguageCode")
            /\ FieldOf(Payload(i), "target_language")
                   = FieldOf(outcome[i].value, "TargetLanguageCode")
C2_Witness ==
    \E i \in Invocations :
        /\ Done(i) /\ Decoded(i) /\ ValidRequest(body[i])
        /\ outcome[i] = Returned(Reply("allo", "de", "fr"))
        /\ IsEnvelope(result[i]) /\ Status(i) = 200

\* C3, as claimed: every mapping body without target_language, whatever else it
\* holds or lacks, gets 400 with "Missing required field: target_language".
C3_AnyBodyMissingTarget ==
    \A i \in Invocations :
        (Done(i) /\ Decoded(i) /\ IsMapping(body[i]) /\ ~HasField(body[i], "target_language")) =>
            ErrorContains(i, 400, "Missing required field: target_language")
\* C3, amended: a body that holds text and lacks target_language gets 400 with
\* "Missing required field: target_language".
C3_TextPresentMissingTarget ==
    \A i \in Invocations :
        (Done(i) /\ Decoded(i) /\ HasField(body[i], "text")
            /\ ~HasField(body[i], "target_language")) =>
            ErrorContains(i, 400, "Missing required field: target_language")
C3_Witness ==
    \E i \in Invocations :
        /\ Done(i) /\ Decoded(i) /\ HasField(body[i], "text")
        /\ FieldOf(body[i], "text") = PStr("hi")
        /\ ~HasField(body[i], "target_language")
        /\ ErrorIs(i, 400, "Missing required field: target_language")

\* C4, as claimed: every body whose text is empty or whitespace-only, whatever the
\* other fields, gets 400 with "Text field must be a non-empty string" and no
\* provider call.
C4_AnyBlankText ==
    \A i \in Invocations :
        (Done(i) /\ Decoded(i) /\ HasField(body[i], "text") /\ IsBlank(FieldOf(body[i], "text"))) =>
            /\ ErrorContains(i, 400, "Text field must be a non-empty string")
            /\ calls[i] = <<>>
\* C4, amended: a body that holds target_language and whose text is empty or
\* whitespace-only gets 400 with "Text field must be a non-empty string" and no
\* provider call.
C4_BlankTextWithTarget ==
    \A i \in Invocations :
        (Done(i) /\ Decoded(i) /\ HasField(body[i], "text") /\ IsBlank(FieldOf(body[i], "text"))
            /\ HasField(body[i], "target_language")) =>
            /\ ErrorContains(i, 400, "Text field must be a non-empty string")
            /\ calls[i] = <<>>
C4_Witness ==
    \E i \in Invocations :
        /\ Done(i) /\ Decoded(i) /\ HasField(body[i], "text")
        /\ FieldOf(body[i], "text") = PStr(" ")
        /\ HasField(body[i], "target_language")
        /\ ErrorIs(i, 400, "Text field must be a non-empty string")

\* C5: a body string that is not valid JSON gets 400 with error "Invalid JSON in
\* request body"; a body that decodes never gets that error, and a body that fails
\* to decode gets no other outcome.
C5_InvalidJsonRejected ==
    \A i \in Invocations :
        Done(i) =>
            /\ (HasBody(i) /\ RawBody(i).t = "str" /\ ~IsValidJson(RawBody(i).v)) =>
                   ErrorIs(i, 400, "Invalid JSON in request body")
            /\ Decoded(i) => ~ErrorIs(i, 400, "Invalid JSON in request body")

\* C6: when the provider signals an unsupported language pair the invocation gets
\* 400 with error "Unsupported language pair" and detail the provider's message,
\* and nothing else in the body.
C6_UnsupportedPair ==
    \A i \in Invocations :
        (Done(i) /\ outcome[i].kind = "raise"
            /\ outcome[i].value.t = "UnsupportedLanguagePairException") =>
            /\ ValidRequest(body[i])
            /\ ErrorIs(i, 400, "Unsupported language pair")
            /\ Keys(Payload(i)) = { Chars("error"), Chars("detail") }
            /\ FieldOf(Payload(i), "detail") = PStrOf(outcome[i].value.v)
C6_Witness ==
    \E i \in Invocations :
        /\ Done(i)
        /\ outcome[i] = Raised(PExc("UnsupportedLanguagePairException", "no such pair"))
        /\ ErrorIs(i, 400, "Unsupported language pair")

\* C7: when the provider raises any other fault the invocation gets 500 with error
\* "Internal server error" and request_id the context's correlation id when it has
\* one and null otherwise, and nothing else in the body.
C7_OtherFault ==
    \A i \in Invocations :
        (Done(i) /\ IsOtherFault(outcome[i])) =>
            /\ ErrorIs(i, 500, "Internal server error")
            /\ Keys(Payload(i)) = { Chars("error"), Chars("request_id") }
            /\ FieldOf(Payload(i), "request_id")
                   = (IF HasAttr(context[i], "aws_request_id")
                      THEN GetAttr(context[i], "aws_request_id") ELSE PNone)

\* the body of an envelope without its timestamp field
SelectPairs(pairs, drop) == SelectSeq(pairs, LAMBDA p : p[1] # drop)
SameButTimestamp(r1, r2) ==
    /\ r1.kind = r2.kind
    /\ IF r1.kind # "return" THEN r1 = r2
       ELSE /\ SelectPairs(r1.value.v, PStr("body")) = SelectPairs(r2.value.v, PStr("body"))
            /\ LET b1 == loads(FieldOf(r1.value, "body").v).val
                   b2 == loads(FieldOf(r2.value, "body").v).val
               IN  SelectPairs(b1.v, PStr("timestamp")) = SelectPairs(b2.v, PStr("timestamp"))

\* C8: two invocations with the same event and context, to which the provider gives
\* the same outcome, end with the same status code, headers and body but for the
\* timestamp, whatever ran before them or runs beside them.
C8_SameInputsSameResponse ==
    \A i, j \in Invocations :
        (Done(i) /\ Done(j) /\ event[i] = event[j] /\ context[i] = context[j]
            /\ outcome[i] = outcome[j]) =>
            SameButTimestamp(result[i], result[j])
C8_Witness ==
    \E i, j \in Invocations :
        /\ i # j /\ Done(i) /\ Done(j)
        /\ event[i] = event[j] /\ context[i] = context[j] /\ outcome[i] = outcome[j]
        /\ outcome[i].kind = "return"
        /\ result[i] # result[j]

RejectedBeforeTheCall(i) ==
    \/ ErrorIs(i, 400, "Invalid JSON in request body")
    \/ ErrorIs(i, 400, "Request body is empty")
    \/ ErrorContains(i, 400, "Missing required field: ")
    \/ ErrorIs(i, 400, "Text field must be a non-empty string")

\* C9: an invocation calls the provider at most once, and only once the body is
\* decoded and valid; an invocation that ends in a decoding or validation error
\* made no call; the call's source language is the body's source_language when the
\* key is present and "auto" otherwise.
C9_CallOnlyWhenValid ==
    \A i \in Invocations :
        /\ Len(calls[i]) <= 1
        /\ calls[i] # <<>> =>
            /\ Decoded(i) /\ ValidRequest(body[i])
            /\ pc[i] \in {"await", "done"}
            /\ calls[i][1].Text = FieldOf(body[i], "text")
            /\ calls[i][1].TargetLanguageCode = FieldOf(body[i], "target_language")
            /\ calls[i][1].SourceLanguageCode
                   = (IF HasField(body[i], "source_language")
                      THEN FieldOf(body[i], "source_language") ELSE PStr("auto"))
        /\ (Done(i) /\ RejectedBeforeTheCall(i)) => outcome[i].kind = "none" /\ calls[i] = <<>>
C9_Witness ==
    \E i \in Invocations :
        /\ Done(i) /\ Len(calls[i]) = 1 /\ calls[i][1].SourceLanguageCode = PStr("auto")
        /\ ~HasField(body[i], "source_language")
        /\ IsEnvelope(result[i]) /\ Status(i) = 200

\* C10: an event whose body is an empty mapping and an event with no body (no
\* 'body' key, or a null body) both get 400 with error "Request body is empty"
\* and no provider call.
C10_EmptyAndAbsentAlike ==
    \A i \in Invocations :
        (Done(i) /\ (~HasBody(i) \/ RawBody(i) = PNone \/ RawBody(i) = PDict(<<>>))) =>
            ErrorIs(i, 400, "Request body is empty") /\ calls[i] = <<>>
=============================================================================
